---- MODULE Spec2Model ----
(***************************************************************************)
(* State-machine model of services/face_recognition_service.py:            *)
(* the command-line adapter main() and FaceRecognitionService              *)
(* (extract_face_encoding, process_video, format_time).                    *)
(*                                                                         *)
(* Units.  Frame rates and sampling rates are held in hundredths           *)
(* (29.97 fps = 2997, 0.5 Hz = 50); face distances and confidences are     *)
(* held in hundredths (0.45 = 45).  A timestamp frame_number / video_fps   *)
(* is the exact fraction [num |-> 100 * frame_number, den |-> video_fps].  *)
(* Formatted text (frame labels, M:SS, str(i)) is a sequence of            *)
(* one-character strings.                                                  *)
(***************************************************************************)
EXTENDS Integers, Sequences, FiniteSets, TLC

VARIABLES
    pc,               \* position of the process: start, open, loop, return, exit
    caller,           \* "main" (command line) or "api" (process_video called directly)
    argv,             \* sys.argv
    stdout,           \* lines printed to standard output, by kind
    stderr,           \* lines printed to standard error, by kind
    exitCode,         \* -1 while running, else the process exit code
    crashed,          \* TRUE when an exception left main() unhandled
    fps,              \* process_video's sampling-rate parameter
    target_encodings, \* number of target encodings (indices 0..n-1)
    person_map,       \* str(index) -> identity record
    videoOpened,      \* the cv2.VideoCapture handle holds the stream open
    stream,           \* the video behind the handle: frames it yields, faces it shows
    total_frames,     \* CAP_PROP_FRAME_COUNT
    video_fps,        \* CAP_PROP_FPS
    frame_skip,
    frame_number,
    processed_frames,
    results,          \* the local list of Match Events
    origin,           \* for each Match Event, <<frame, face, target>> it came from
    face_encodings,   \* faces of the frame last handed to detection: distance to each target
    sampled,          \* frame indices handed to face detection, in order
    facesLeft,        \* faces the rest of the stream may still show
    retval,           \* what process_video returned
    outcome           \* None, Running, Completed, Aborted, SourceUnavailable

vars == <<pc, caller, argv, stdout, stderr, exitCode, crashed, fps,
          target_encodings, person_map, videoOpened, stream, total_frames,
          video_fps, frame_skip, frame_number, processed_frames, results,
          origin, face_encodings, sampled, facesLeft, retval, outcome>>

(***************************************************************************)
(* Bounds of the model and constants of the program.                       *)
(***************************************************************************)
MaxFrames == 2      \* frames of a short video
MaxFaces == 2       \* faces a short video shows in all
MaxTargets == 2     \* target encodings
MaxResults == 3     \* Match Events of one run

MATCH_THRESHOLD == 45   \* distance < 0.45
DEFAULT_FPS == 50       \* fps=0.5
PROGRESS_EVERY == 10    \* processed_frames % 10

Max(a, b) == IF a >= b THEN a ELSE b

\* Distances face_recognition.face_distance may report (hundredths): two below
\* the threshold, and the threshold itself.
NearDistances == {30, 44}
FarDistances == {45}

\* Native frame rates of short videos (hundredths of fps): missing metadata,
\* a 0.25 fps time lapse, and 1 fps.
FpsValues == {0, 25, 100}

\* The sampling rate a direct caller passes instead of the default (0.3 Hz).
SamplingRates == {30}

ShortVideos ==
    [frames : 0..MaxFrames, fps : FpsValues, total : {-1}, faces : {MaxFaces}]

\* Long recordings, showing at most one face: 100 frames at 10, 25 and 29.97
\* fps, and 20 frames at 1 fps with and without a frame count in the metadata
\* (total = -1: the container reports the real count).
LongVideos ==
    { [frames |-> 100, fps |-> 1000, total |-> -1, faces |-> 1],
      [frames |-> 100, fps |-> 2500, total |-> -1, faces |-> 1],
      [frames |-> 100, fps |-> 2997, total |-> -1, faces |-> 1],
      [frames |-> 20,  fps |-> 100,  total |-> -1, faces |-> 1],
      [frames |-> 20,  fps |-> 100,  total |-> 0,  faces |-> 1] }

\* CAP_PROP_FRAME_COUNT
ReportedFrames(v) == IF v.total = -1 THEN v.frames ELSE v.total

\* Short videos are analysed at the default rate, long ones at any rate.
Videos(rate) == LongVideos \cup (IF rate = DEFAULT_FPS THEN ShortVideos ELSE {})

Argvs ==
    { <<"prog">>,
      <<"prog", "bogus">>,
      <<"prog", "extract_encoding">>,
      <<"prog", "extract_encoding", "image">>,
      <<"prog", "process_video", "video", "encodings">>,
      <<"prog", "process_video", "video", "encodings", "person_map">> }

\* The person map: an identity for target 1, none for any other target.
PersonMaps == { (<<"1">> :> [personId |-> "p1", name |-> "Bob"]) }

(***************************************************************************)
(* Text formatting.                                                        *)
(***************************************************************************)
DigitChars == <<"0", "1", "2", "3", "4", "5", "6", "7", "8", "9">>

RECURSIVE Digits(_)
Digits(n) ==
    IF n < 10 THEN <<DigitChars[n + 1]>>
    ELSE Digits(n \div 10) \o <<DigitChars[(n % 10) + 1]>>

RECURSIVE ZeroPad(_, _)
ZeroPad(s, width) == IF Len(s) >= width THEN s ELSE ZeroPad(<<"0">> \o s, width)

\* str(i)
Str(i) == Digits(i)

\* variant: the label padded to three digits
FrameLabelShort(k) == <<"f", "r", "a", "m", "e", "-">> \o ZeroPad(Digits(k), 3)

\* f'frame-{frame_number:04d}'
FrameLabel(k) == <<"f", "r", "a", "m", "e", "-">> \o ZeroPad(Digits(k), 4)

\* format_time(seconds): minutes = int(seconds // 60); seconds = int(seconds % 60)
format_time(ts) ==
    LET minutes == ts.num \div (60 * ts.den)
        seconds == (ts.num \div ts.den) % 60
    IN  Digits(minutes) \o <<":">> \o ZeroPad(Digits(seconds), 2)

(***************************************************************************)
(* Matching (process_video, the body of the sampled-frame branch).         *)
(***************************************************************************)
\* round(n / d) as Python 3 rounds: to the nearest integer, ties to even
RoundHalfEven(n, d) ==
    LET q == n \div d
        r == n % d
    IN  IF 2 * r < d THEN q
        ELSE IF 2 * r > d THEN q + 1
        ELSE IF q % 2 = 0 THEN q ELSE q + 1

\* variant: the quotient rounded instead of truncated
FrameSkipRounded(vfps, rate) == Max(1, RoundHalfEven(vfps, rate))

\* frame_skip = max(1, int(video_fps / fps))
FrameSkip(vfps, rate) == Max(1, vfps \div rate)

\* variant: the frame counter advanced before the test
IsSampledAfterIncrement(k, skip) == (k + 1) % skip = 0

\* if frame_number % frame_skip == 0
IsSampled(k, skip) == k % skip = 0

\* variant: new matches put in front of the list
PrependAll(list, items) == items \o list

\* results.append(result), once per match of the frame
AppendAll(list, items) == list \o items

\* timestamp = frame_number / video_fps
Timestamp(k, vfps) == [num |-> 100 * k, den |-> vfps]

\* variant: the threshold itself counted as a match
IsMatchInclusive(distance) == distance <= MATCH_THRESHOLD

\* if distance < 0.45
IsMatch(distance) == distance < MATCH_THRESHOLD

\* confidence = max(0, 1 - distance)
Confidence(distance) == Max(0, 100 - distance)

\* dict.get(key, default)
Get(d, key, default) == IF key \in DOMAIN d THEN d[key] ELSE default

\* person_map.get(str(i), {})
PersonInfo(pm, i) == Get(pm, Str(i), <<>>)

\* the result dict built for one match
MatchEvent(k, vfps, i, distance, pm) ==
    [ timestamp          |-> Timestamp(k, vfps),
      timestampFormatted |-> format_time(Timestamp(k, vfps)),
      confidence         |-> Confidence(distance),
      distance           |-> distance,
      personId           |-> Get(PersonInfo(pm, i), "personId", ""),
      personName         |-> Get(PersonInfo(pm, i), "name", ""),
      frame              |-> FrameLabel(k) ]

\* for i, target_encoding in enumerate(target_encodings): the targets i..n-1
\* that face `enc` matches, in index order.
RECURSIVE MatchedTargets(_, _, _)
MatchedTargets(enc, i, n) ==
    IF i >= n THEN <<>>
    ELSE (IF IsMatch(enc[i]) THEN <<i>> ELSE <<>>) \o MatchedTargets(enc, i + 1, n)

\* for face_encoding in face_encodings: <<face, target>> of every match of the
\* faces f..Len(faces), in loop order.
RECURSIVE FrameMatches(_, _, _)
FrameMatches(faces, f, n) ==
    IF f > Len(faces) THEN <<>>
    ELSE LET ts == MatchedTargets(faces[f], 0, n)
         IN  [j \in 1..Len(ts) |-> <<f, ts[j]>>] \o FrameMatches(faces, f + 1, n)

\* The detections a frame may hold: up to `budget` faces, each with a distance
\* to every one of the n targets, at most `room` of them below the threshold.
Detections(budget, n, room) ==
    UNION { UNION { UNION { { [f \in 1..m |-> [i \in 0..(n - 1) |->
                                 IF <<f, i>> \in S THEN d[<<f, i>>] ELSE far]]
                              : d \in [S -> NearDistances] }
                            : far \in FarDistances }
                    : S \in { T \in SUBSET ((1..m) \X (0..(n - 1))) :
                                Cardinality(T) <= room } }
            : m \in 0..budget }

(***************************************************************************)
(* Initial state: the process has started, or a caller is about to call    *)
(* process_video directly.                                                 *)
(***************************************************************************)
Init ==
    /\ pc = "start"
    /\ caller \in {"main", "api"}
    /\ argv \in (IF caller = "main" THEN Argvs ELSE {<<>>})
    /\ stdout = <<>>
    /\ stderr = <<>>
    /\ exitCode = -1
    /\ crashed = FALSE
    /\ fps = DEFAULT_FPS
    /\ target_encodings = 0
    /\ person_map = <<>>
    /\ videoOpened = FALSE
    /\ stream = [frames |-> 0, fps |-> 0, total |-> -1, faces |-> 0]
    /\ total_frames = 0
    /\ video_fps = 0
    /\ frame_skip = 1
    /\ frame_number = 0
    /\ processed_frames = 0
    /\ results = <<>>
    /\ origin = <<>>
    /\ face_encodings = <<>>
    /\ sampled = <<>>
    /\ facesLeft = 0
    /\ retval = <<>>
    /\ outcome = "None"

videoVars == <<videoOpened, stream, total_frames, video_fps, frame_skip,
               frame_number, processed_frames, results, origin,
               face_encodings, sampled, facesLeft, retval, outcome>>
callVars == <<fps, target_encodings, person_map>>

(***************************************************************************)
(* main()                                                                  *)
(***************************************************************************)
\* sys.exit(1) after printing a usage or unknown-command line
ExitWith(line, code) ==
    /\ stdout' = Append(stdout, line)
    /\ exitCode' = code
    /\ pc' = "exit"
    /\ UNCHANGED <<caller, argv, stderr, crashed, callVars, videoVars>>

\* if len(sys.argv) < 2
MainNoCommand ==
    /\ pc = "start" /\ caller = "main"
    /\ Len(argv) < 2
    /\ ExitWith("usage", 1)

\* else: Unknown command
MainUnknownCommand ==
    /\ pc = "start" /\ caller = "main"
    /\ Len(argv) >= 2
    /\ argv[2] \notin {"extract_encoding", "process_video"}
    /\ ExitWith("unknown", 1)

\* extract_encoding / process_video with the wrong number of arguments
MainBadArgCount ==
    /\ pc = "start" /\ caller = "main"
    /\ Len(argv) >= 2
    /\ \/ argv[2] = "extract_encoding" /\ Len(argv) # 3
       \/ argv[2] = "process_video" /\ Len(argv) # 5
    /\ ExitWith("usage", 1)

\* extract_face_encoding: what the image turns out to be decides the result
\* and whether an error line is logged.
extract_face_encoding(image) ==
    [ encoding |-> IF image = "face" THEN <<"encoding">> ELSE <<>>,
      logged   |-> IF image = "unreadable" THEN <<"error">> ELSE <<>> ]

\* command == "extract_encoding"
MainExtractEncoding ==
    /\ pc = "start" /\ caller = "main"
    /\ Len(argv) = 3 /\ argv[2] = "extract_encoding"
    /\ \E image \in {"face", "noface", "unreadable"} :
          LET r == extract_face_encoding(image)
          IN  /\ stderr' = stderr \o r.logged
              /\ stdout' = Append(stdout,
                    IF r.encoding # <<>> THEN "json_success" ELSE "json_failure")
    /\ exitCode' = 0
    /\ pc' = "exit"
    /\ UNCHANGED <<caller, argv, crashed, callVars, videoVars>>

\* command == "process_video": open() / json.load() of the two files succeed,
\* then service.process_video(video_path, target_encodings, person_map)
MainProcessVideo ==
    /\ pc = "start" /\ caller = "main"
    /\ Len(argv) = 5 /\ argv[2] = "process_video"
    /\ target_encodings' \in 0..MaxTargets
    /\ person_map' \in PersonMaps
    /\ fps' = DEFAULT_FPS
    /\ pc' = "open"
    /\ UNCHANGED <<caller, argv, stdout, stderr, exitCode, crashed, videoVars>>

\* command == "process_video": open() or json.load() raises; nothing in main
\* catches it, so the interpreter prints a traceback and exits with status 1.
MainLoadFails ==
    /\ pc = "start" /\ caller = "main"
    /\ Len(argv) = 5 /\ argv[2] = "process_video"
    /\ stderr' = Append(stderr, "traceback")
    /\ crashed' = TRUE
    /\ exitCode' = 1
    /\ pc' = "exit"
    /\ UNCHANGED <<caller, argv, stdout, callVars, videoVars>>

\* print(json.dumps({"success": True, "results": results}))
MainPrintResults ==
    /\ pc = "return" /\ caller = "main"
    /\ stdout' = Append(stdout, "json_success")
    /\ exitCode' = 0
    /\ pc' = "exit"
    /\ UNCHANGED <<caller, argv, stderr, crashed, callVars, videoVars>>

\* process_video called directly, with a sampling rate of the caller's choice
ApiCall ==
    /\ pc = "start" /\ caller = "api"
    /\ target_encodings' \in 0..MaxTargets
    /\ person_map' \in PersonMaps
    /\ fps' \in SamplingRates
    /\ pc' = "open"
    /\ UNCHANGED <<caller, argv, stdout, stderr, exitCode, crashed, videoVars>>

(***************************************************************************)
(* process_video()                                                         *)
(***************************************************************************)
\* variant: the except branch returning what had been accumulated
AbortKeepingResults ==
    /\ stderr' = Append(stderr, "error")
    /\ retval' = results
    /\ pc' = "return"

\* except Exception as e: print(..., file=sys.stderr); return []
Abort ==
    /\ stderr' = Append(stderr, "error")
    /\ retval' = <<>>
    /\ pc' = "return"

\* The except branch returns without calling video.release(): the handle is
\* closed only if the runtime happens to finalise the abandoned VideoCapture
\* object, which the language leaves to the implementation.
Abandoned == videoOpened' \in {videoOpened, FALSE}

\* video = cv2.VideoCapture(video_path); isOpened(); properties; banner
OpenVideo ==
    /\ pc = "open"
    /\ \E v \in Videos(fps) :
          /\ stream' = v
          /\ facesLeft' = v.faces
          /\ total_frames' = ReportedFrames(v)
          /\ video_fps' = v.fps
          /\ frame_skip' = FrameSkip(v.fps, fps)
    /\ videoOpened' = TRUE
    /\ frame_number' = 0
    /\ processed_frames' = 0
    /\ results' = <<>>
    /\ stdout' = stdout \o <<"banner", "every">>
    /\ outcome' = "Running"
    /\ pc' = "loop"
    /\ UNCHANGED <<caller, argv, stderr, exitCode, crashed, callVars, origin,
                   face_encodings, sampled, retval>>

\* variant: a failed open tried again
OpenFailsAndRetries ==
    /\ pc = "open"
    /\ videoOpened' = FALSE
    /\ results' = <<>>
    /\ outcome' = "SourceUnavailable"
    /\ stderr' = Append(stderr, "error")
    /\ retval' = <<>>
    /\ pc' = "open"
    /\ UNCHANGED <<caller, argv, stdout, exitCode, crashed, callVars, stream,
                   total_frames, video_fps, frame_skip, frame_number,
                   processed_frames, origin, face_encodings, sampled, facesLeft>>

\* if not video.isOpened(): raise Exception("Could not open video file")
OpenFails ==
    /\ pc = "open"
    /\ videoOpened' = FALSE
    /\ results' = <<>>
    /\ outcome' = "SourceUnavailable"
    /\ Abort
    /\ UNCHANGED <<caller, argv, stdout, exitCode, crashed, callVars, stream,
                   total_frames, video_fps, frame_skip, frame_number,
                   processed_frames, origin, face_encodings, sampled, facesLeft>>

\* ret, frame = video.read(); if not ret: break; video.release(); return results
EndOfStream ==
    /\ pc = "loop"
    /\ frame_number >= stream.frames
    /\ videoOpened' = FALSE
    /\ stdout' = Append(stdout, "complete")
    /\ retval' = results
    /\ outcome' = "Completed"
    /\ pc' = "return"
    /\ UNCHANGED <<caller, argv, stderr, exitCode, crashed, callVars, stream,
                   total_frames, video_fps, frame_skip, frame_number,
                   processed_frames, results, origin, face_encodings, sampled,
                   facesLeft>>

\* frame_number % frame_skip != 0: frame_number += 1
SkipFrame ==
    /\ pc = "loop"
    /\ frame_number < stream.frames
    /\ ~IsSampled(frame_number, frame_skip)
    /\ frame_number' = frame_number + 1
    /\ UNCHANGED <<pc, caller, argv, stdout, stderr, exitCode, crashed, callVars,
                   videoOpened, stream, total_frames, video_fps, frame_skip,
                   processed_frames, results, origin, face_encodings, sampled,
                   facesLeft, retval, outcome>>

\* frame_number % frame_skip == 0: detect, compare, append, count, progress
ProcessFrame ==
    /\ pc = "loop"
    /\ frame_number < stream.frames
    /\ IsSampled(frame_number, frame_skip)
    /\ video_fps # 0
    /\ \E faces \in Detections(facesLeft, target_encodings,
                                MaxResults - Len(results)) :
          LET ms == FrameMatches(faces, 1, target_encodings)
              events == [j \in 1..Len(ms) |->
                            MatchEvent(frame_number, video_fps, ms[j][2],
                                       faces[ms[j][1]][ms[j][2]], person_map)]
              found == [j \in 1..Len(ms) |-> "found"]
              report == (processed_frames + 1) % PROGRESS_EVERY = 0
          IN  /\ face_encodings' = faces
              /\ facesLeft' = facesLeft - Len(faces)
              /\ sampled' = Append(sampled, frame_number)
              /\ results' = AppendAll(results, events)
              /\ origin' = AppendAll(origin,
                    [j \in 1..Len(ms) |-> <<frame_number, ms[j][1], ms[j][2]>>])
              /\ processed_frames' = processed_frames + 1
              /\ IF report /\ total_frames = 0
                 THEN \* progress = (frame_number / total_frames) * 100 raises
                      /\ stdout' = stdout \o found
                      /\ outcome' = "Aborted"
                      /\ Abort
                      /\ Abandoned
                      /\ UNCHANGED frame_number
                 ELSE /\ stdout' = stdout \o found \o
                            (IF report THEN <<"progress">> ELSE <<>>)
                      /\ frame_number' = frame_number + 1
                      /\ UNCHANGED <<pc, stderr, retval, outcome, videoOpened>>
    /\ UNCHANGED <<caller, argv, exitCode, crashed, callVars,
                   stream, total_frames, video_fps, frame_skip>>

\* An exception while reading, converting, detecting, encoding or comparing a
\* frame, or timestamp = frame_number / video_fps with video_fps == 0.  (A
\* failure after some matches of the same frame were appended differs only in
\* the local list, which the except branch drops; ProcessFrame's failing
\* progress line is such a case.)
FrameFails ==
    /\ pc = "loop"
    /\ frame_number < stream.frames
    /\ video_fps = 0 => IsSampled(frame_number, frame_skip)
    /\ outcome' = "Aborted"
    /\ Abort
    /\ Abandoned
    /\ UNCHANGED <<caller, argv, stdout, exitCode, crashed, callVars,
                   stream, total_frames, video_fps, frame_skip,
                   frame_number, processed_frames, results, origin,
                   face_encodings, sampled, facesLeft>>

Next ==
    \/ MainNoCommand
    \/ MainUnknownCommand
    \/ MainBadArgCount
    \/ MainExtractEncoding
    \/ MainProcessVideo
    \/ MainLoadFails
    \/ MainPrintResults
    \/ ApiCall
    \/ OpenVideo
    \/ OpenFails
    \/ EndOfStream
    \/ SkipFrame
    \/ ProcessFrame
    \/ FrameFails

Spec == Init /\ [][Next]_vars

(***************************************************************************)
(* Vocabulary of the properties.                                           *)
(***************************************************************************)
Terminal == outcome \in {"Completed", "Aborted", "SourceUnavailable"}

\* The decimal number a digit string denotes.
RECURSIVE ParseDigits(_)
ParseDigits(s) ==
    IF s = <<>> THEN 0
    ELSE 10 * ParseDigits(SubSeq(s, 1, Len(s) - 1)) +
         (CHOOSE d \in 0..9 : DigitChars[d + 1] = s[Len(s)])

\* a / b as a fraction is at most c / d (b, d > 0)
FracLeq(x, y) == x.num * y.den <= y.num * x.den

\* lexicographic order on <<frame, face, target>>
Before(a, b) ==
    \/ a[1] < b[1]
    \/ a[1] = b[1] /\ a[2] < b[2]
    \/ a[1] = b[1] /\ a[2] = b[2] /\ a[3] < b[3]

ProcessVideoCommand ==
    caller = "main" /\ Len(argv) = 5 /\ argv[2] = "process_video"

WellFormedInvocation ==
    /\ caller = "main"
    /\ Len(argv) >= 2
    /\ \/ argv[2] = "extract_encoding" /\ Len(argv) = 3
       \/ argv[2] = "process_video" /\ Len(argv) = 5

(***************************************************************************)
(* C1: in every terminal state of process_video (Completed, Aborted,       *)
(* SourceUnavailable) the video stream handle is not open.                 *)
(***************************************************************************)
C1_HandleReleasedOnEveryExit == Terminal => ~videoOpened

(***************************************************************************)
(* C2: in a run of the process_video command, standard output holds        *)
(* nothing but the structured JSON result; diagnostics go to the error     *)
(* stream.                                                                 *)
(***************************************************************************)
C2_StdoutHoldsOnlyJson ==
    ProcessVideoCommand =>
        \A j \in 1..Len(stdout) : stdout[j] \in {"json_success", "json_failure"}

(***************************************************************************)
(* C3: Match Events stand in discovery order (ascending frame, then face   *)
(* within the frame, then target within the face), in the local list and   *)
(* in the returned one, so timestamps of consecutive events never          *)
(* decrease.                                                               *)
(***************************************************************************)
C3_DiscoveryOrder ==
    /\ Len(origin) = Len(results)
    /\ \A j \in 1..(Len(origin) - 1) : Before(origin[j], origin[j + 1])
    /\ \A j \in 1..(Len(results) - 1) :
          FracLeq(results[j].timestamp, results[j + 1].timestamp)
    /\ \A j \in 1..(Len(retval) - 1) :
          FracLeq(retval[j].timestamp, retval[j + 1].timestamp)
    /\ outcome = "Completed" => retval = results

\* a completed run that returned three events: two targets of one face, then
\* a face of a later frame
C3_Witness ==
    /\ outcome = "Completed"
    /\ Len(retval) = 3
    /\ origin[1][1] = origin[2][1] /\ origin[1][2] = origin[2][2]
    /\ origin[2][1] < origin[3][1]
    /\ ~FracLeq(retval[3].timestamp, retval[2].timestamp)

(***************************************************************************)
(* C4: an exception in the frame loop aborts the run and the call returns  *)
(* an empty sequence, whatever had been accumulated.                       *)
(***************************************************************************)
C4_AbortReturnsEmpty ==
    outcome = "Aborted" =>
        /\ retval = <<>>
        /\ pc \in {"return", "exit"}
        /\ "error" \in {stderr[j] : j \in 1..Len(stderr)}

\* an abort after two events had been accumulated
C4_Witness == outcome = "Aborted" /\ Len(results) >= 2 /\ retval = <<>>

(***************************************************************************)
(* C5: a video that cannot be opened ends the call as SourceUnavailable:   *)
(* empty result, no frame read, no detection, no retry, handle not open.   *)
(***************************************************************************)
C5_SourceUnavailable ==
    outcome = "SourceUnavailable" =>
        /\ retval = <<>>
        /\ frame_number = 0
        /\ sampled = <<>>
        /\ results = <<>>
        /\ ~videoOpened
        /\ pc \in {"return", "exit"}
        /\ stderr = <<"error">>

C5_Witness == outcome = "SourceUnavailable" /\ pc = "exit" /\ exitCode = 0

(***************************************************************************)
(* C6: the event for target i at sampled frame k has timestamp             *)
(* k / nativeFrameRate, label "frame-" + k padded to 4 digits, and the     *)
(* identity of identities[str(i)], or empty identity fields when there is  *)
(* no such entry.  Instance: 100 frames at 10 fps, 2 targets, one face at  *)
(* frame 40 at distance 0.3 from target 1 only: exactly one event, of      *)
(* identities["1"], frame-0040, timestamp 4.0, confidence 0.7.             *)
(***************************************************************************)
C6_EventFields ==
    /\ \A j \in 1..Len(results) :
          LET e == results[j]
              k == origin[j][1]
              i == origin[j][3]
              keys == {key \in DOMAIN person_map : ParseDigits(key) = i}
          IN  /\ e.timestamp.den # 0
              /\ e.timestamp.num * video_fps = 100 * k * e.timestamp.den
              /\ Len(e.frame) = 10
              /\ SubSeq(e.frame, 1, 6) = <<"f", "r", "a", "m", "e", "-">>
              /\ ParseDigits(SubSeq(e.frame, 7, 10)) = k
              /\ keys = {} => e.personId = "" /\ e.personName = ""
              /\ \A key \in keys :
                    /\ e.personId = person_map[key].personId
                    /\ e.personName = person_map[key].name
    /\ ( /\ outcome = "Completed"
         /\ stream.frames = 100 /\ video_fps = 1000 /\ target_encodings = 2
         /\ origin = << <<40, 1, 1>> >>
         /\ results[1].distance = 30 )
       => retval = << [ timestamp          |-> [num |-> 4000, den |-> 1000],
                        timestampFormatted |-> <<"0", ":", "0", "4">>,
                        confidence         |-> 70,
                        distance           |-> 30,
                        personId           |-> "p1",
                        personName         |-> "Bob",
                        frame              |-> <<"f", "r", "a", "m", "e", "-",
                                                 "0", "0", "4", "0">> ] >>

\* the instance: the only match of the run is target 1 at frame 40
C6_Witness ==
    /\ outcome = "Completed"
    /\ stream.frames = 100 /\ video_fps = 1000 /\ target_encodings = 2
    /\ origin = << <<40, 1, 1>> >>
    /\ retval # <<>> /\ retval[1].distance = 30 /\ retval[1].personName = "Bob"

\* an event for a target the person map has no entry for
C6_MissingIdentityReached ==
    \E j \in 1..Len(retval) :
        origin[j][3] = 0 /\ retval[j].personId = "" /\ retval[j].personName = ""

(***************************************************************************)
(* C7: the exit code is non-zero only on a malformed invocation; a         *)
(* well-formed extract_encoding or process_video invocation ends with a    *)
(* JSON report on standard output, never with a crash.                     *)
(***************************************************************************)
C7_StructuredReportAlways ==
    (pc = "exit" /\ WellFormedInvocation) =>
        /\ exitCode = 0
        /\ ~crashed
        /\ stdout # <<>>
        /\ stdout[Len(stdout)] \in {"json_success", "json_failure"}

(***************************************************************************)
(* C8 as stated: frameSkip = max(1, round(nativeFrameRate /                *)
(* samplingRateHz)) for every positive native frame rate.                  *)
(***************************************************************************)
C8_FrameSkipRounds ==
    (outcome = "Running" /\ video_fps > 0) =>
        frame_skip = Max(1, RoundHalfEven(video_fps, fps))

(***************************************************************************)
(* C8 as amended: frameSkip = max(1, floor(nativeFrameRate /               *)
(* samplingRateHz)): the quotient is truncated, not rounded.               *)
(***************************************************************************)
C8_FrameSkipTruncates ==
    (outcome = "Running" /\ video_fps > 0) =>
        \/ frame_skip = 1 /\ video_fps < 2 * fps
        \/ /\ frame_skip > 1
           /\ frame_skip * fps <= video_fps
           /\ video_fps < (frame_skip + 1) * fps

\* 29.97 fps at 0.5 Hz: the quotient 59.94 gives 59
C8_Witness ==
    outcome = "Running" /\ video_fps = 2997 /\ fps = 50 /\ frame_skip = 59

(***************************************************************************)
(* C9: frameSkip >= 1, and the frames handed to detection are exactly the  *)
(* multiples of frameSkip among the frames read so far, each once, in      *)
(* ascending order; a completed run has read all N frames.  Instance: 100  *)
(* frames at 10 fps and 0.5 Hz give frameSkip 20 and frames 0, 20, 40,     *)
(* 60, 80.                                                                 *)
(***************************************************************************)
C9_SampledFrames ==
    /\ frame_skip >= 1
    /\ \A j \in 1..Len(sampled) : sampled[j] = (j - 1) * frame_skip
    /\ outcome \in {"Running", "Completed"} =>
          /\ video_fps > 0 =>
                Len(sampled) = (frame_number + frame_skip - 1) \div frame_skip
          /\ processed_frames = Len(sampled)
    /\ outcome = "Completed" => frame_number = stream.frames
    /\ ( /\ outcome = "Completed"
         /\ stream.frames = 100 /\ video_fps = 1000 /\ fps = DEFAULT_FPS )
       => frame_skip = 20 /\ sampled = <<0, 20, 40, 60, 80>>

C9_Witness ==
    /\ outcome = "Completed"
    /\ stream.frames = 100 /\ video_fps = 1000 /\ fps = DEFAULT_FPS
    /\ sampled = <<0, 20, 40, 60, 80>>

(***************************************************************************)
(* C10: for the frame last handed to detection, every face and every       *)
(* target index, there is exactly one Match Event if the distance is       *)
(* below 0.45 and none otherwise; every event has confidence               *)
(* max(0, 1 - distance), within [0, 1] and non-increasing in distance.     *)
(***************************************************************************)
C10_ThresholdAndConfidence ==
    /\ sampled # <<>> =>
          LET k == sampled[Len(sampled)]
          IN  /\ \A f \in 1..Len(face_encodings) :
                    \A i \in 0..(target_encodings - 1) :
                       LET hits == {j \in 1..Len(origin) : origin[j] = <<k, f, i>>}
                           d == face_encodings[f][i]
                       IN  /\ d < 45 => Cardinality(hits) = 1
                           /\ d >= 45 => hits = {}
                           /\ \A j \in hits : results[j].distance = d
              /\ \A j \in 1..Len(origin) :
                    origin[j][1] = k =>
                       /\ origin[j][2] \in 1..Len(face_encodings)
                       /\ origin[j][3] \in 0..(target_encodings - 1)
    /\ \A j \in 1..Len(origin) :
          origin[j][1] \in {sampled[m] : m \in 1..Len(sampled)}
    /\ \A j \in 1..Len(results) :
          /\ results[j].distance < 45
          /\ results[j].confidence = 100 - results[j].distance
          /\ results[j].confidence \in 0..100
    /\ \A j, m \in 1..Len(results) :
          results[j].distance <= results[m].distance =>
             results[j].confidence >= results[m].confidence

\* a frame with a face at exactly 0.45 from one target and below it from
\* another, and events at two different distances
C10_Witness ==
    /\ \E f \in 1..Len(face_encodings) :
          \E i, h \in 0..(target_encodings - 1) :
             face_encodings[f][i] = 45 /\ face_encodings[f][h] = 44
    /\ \E j, m \in 1..Len(results) : results[j].distance < results[m].distance

====
